---- MODULE Spec2Model ----
(***************************************************************************)
(* Model of the TokenManager command (src/token.go): flag parsing, the CA  *)
(* bootstrap (LoadCAs), the renewal call (Renew, with ReadToken and        *)
(* Transport) and the daemon loop of main.                                 *)
(*                                                                         *)
(* Strings that the program takes apart or concatenates (tokens, file      *)
(* contents, the Authorization header, file paths that may be given as     *)
(* tokens) are sequences of one-character strings.  Directory paths, which *)
(* the program only compares with "" and hands to the OS, are TLA+ strings.*)
(* The verbose flag only selects what is logged and is left out, as is the *)
(* log itself.                                                             *)
(***************************************************************************)
EXTENDS Integers, Sequences, FiniteSets, TLC

VARIABLES
  pc,         \* position of main: "start", "cas", "renew", "write", "loop",
              \* "sleep", "loopwrite", "exited"
  status,     \* exit status of the process: -1 while it runs, 0 or 1 after
  cause,      \* what made log.Fatal fire ("" when nothing did)
  version,    \* flag -version
  token,      \* flag -token
  out,        \* flag -out
  interval,   \* flag -interval
  rootCAs,    \* flag -rootCAs, later the directory LoadCAs returned
  fs,         \* regular files: path -> [kind, data]
  cadir,      \* the directory $HOME/.certificates: [exists, entries]
  rec,        \* main's TokenRecord
  nreq,       \* number of renewal requests handed to client.Do
  auth,       \* Authorization header of the latest request
  client,     \* the http.Client of the latest request
  trres,      \* what Transport returned in the latest Renew
  downloads,  \* the links LoadCAs fetched with http.Get in this run
  uri,        \* flag -url
  resp,       \* what the endpoint answered to the latest request
  lastrun     \* how LoadCAs ended in the previous run of the command on
              \* this machine: "none", "ok", "failed"

vars == <<pc, status, cause, version, token, out, interval, rootCAs, fs,
          cadir, rec, nreq, auth, client, trres, downloads, uri, resp,
          lastrun>>

----------------------------------------------------------------------------
(* Bounds of the model *)

\* cap on the number of renewal requests of one run of the daemon
MaxRequests == 3

\* longest token string / file content enumerated for ReadToken
MaxLen == 3

----------------------------------------------------------------------------
(* Strings *)

NL == "\n"

Empty == <<>>

\* the characters file contents and literal tokens are built from
Alphabet == {"a", "b", NL}

RECURSIVE StringsUpTo(_)
StringsUpTo(n) ==
  IF n = 0 THEN {Empty}
  ELSE LET shorter == StringsUpTo(n - 1)
       IN  shorter \cup {Append(s, c) : s \in shorter, c \in Alphabet}

\* strings.Replace(s, old, new, n) for a one-character old: the first n
\* occurrences are replaced, all of them when n < 0
RECURSIVE Replace(_, _, _, _)
Replace(s, old, new, n) ==
  IF s = Empty \/ n = 0 THEN s
  ELSE IF Head(s) = old
       THEN new \o Replace(Tail(s), old, new, n - 1)
       ELSE <<Head(s)>> \o Replace(Tail(s), old, new, n)

\* the literal "Bearer " of fmt.Sprintf("Bearer %s", t)
BearerPrefix == <<"B", "e", "a", "r", "e", "r", " ">>

Bearer(t) == BearerPrefix \o t

----------------------------------------------------------------------------
(* Files *)

\* the two file paths of the model: a token file and an output file
P1 == <<"/", "f">>
P2 == <<"/", "o">>
Paths == {P1, P2}

NoFile == [kind |-> "none", data |-> Empty]
NoRead == [kind |-> "noread", data |-> Empty]   \* exists, cannot be read
File(d) == [kind |-> "file", data |-> d]

\* os.Stat(r) returns no error
Stat(files, r) == r \in DOMAIN files /\ files[r].kind # "none"

\* strings.Replace(string(b), "\n", "", -1)
StripOnlyFirst(s) == Replace(s, NL, Empty, 1)
StripNewlines(s) == Replace(s, NL, Empty, -1)

\* ReadToken: the token, or fatal when the file exists and cannot be read
ReadToken(files, r) ==
  IF Stat(files, r)
  THEN IF files[r].kind = "noread"
       THEN [fatal |-> TRUE, tok |-> Empty]
       ELSE [fatal |-> FALSE, tok |-> StripNewlines(files[r].data)]
  ELSE [fatal |-> FALSE, tok |-> r]

\* ioutil.WriteFile(path, data, 0777) that succeeds: create or truncate
AppendFile(files, path, data) ==
  [files EXCEPT ![path] = File(files[path].data \o data)]
WriteFile(files, path, data) == [files EXCEPT ![path] = File(data)]

----------------------------------------------------------------------------
(* The certificate directory and Transport *)

\* number of entries of links in LoadCAs
NLinks == 4
Links == 1..NLinks

\* $HOME/.certificates, the dname of LoadCAs
CertDir == "~/.certificates"
\* a path that names no directory
NoDir == "/nodir"

Kinds == {"absent", "pem", "garbage", "noread"}

\* ioutil.ReadDir: the entries sorted by name, or an error
RECURSIVE Listing(_, _)
Listing(entries, l) ==
  IF l > NLinks THEN <<>>
  ELSE IF entries[l] = "absent" THEN Listing(entries, l + 1)
       ELSE <<[name |-> l, kind |-> entries[l]]>> \o Listing(entries, l + 1)

ReadDir(dir, path) ==
  IF path = CertDir /\ dir.exists
  THEN [err |-> FALSE, files |-> Listing(dir.entries, 1)]
  ELSE [err |-> TRUE, files |-> <<>>]

\* certPool.AppendCertsFromPEM(caCert) on what ReadFile gave for the entry
\* (nil for an unreadable file): ok iff a certificate was parsed
AppendCertsFromPEM(finfo) == finfo.kind = "pem"

\* the statement that sets certs in the loop of Transport: certs = true
CertsAfterFile(certs, ok) == TRUE

\* the loop over files of Transport
RECURSIVE TransportLoop(_, _, _)
TransportLoop(files, pool, certs) ==
  IF files = <<>> THEN [pool |-> pool, certs |-> certs]
  ELSE LET finfo == Head(files)
           ok == AppendCertsFromPEM(finfo)
       IN  TransportLoop(Tail(files),
                         IF ok THEN pool \cup {finfo.name} ELSE pool,
                         CertsAfterFile(certs, ok))

NilTransport == [nil |-> TRUE, InsecureSkipVerify |-> FALSE, RootCAs |-> {},
                 pool |-> FALSE]

\* return nil, errors.New(msg)
TransportInsecureOnError(msg) ==
  [tr |-> [nil |-> FALSE, InsecureSkipVerify |-> TRUE, RootCAs |-> {},
           pool |-> FALSE],
   err |-> msg]
TransportError(msg) == [tr |-> NilTransport, err |-> msg]

\* Transport(rootCAs, verbose): [tr, err], err = "" for nil
Transport(dir, path) ==
  LET listed == ReadDir(dir, path) IN
  IF listed.err
  THEN TransportError(IF path = "" THEN "root CAs area is not provided"
                      ELSE "Unable to list files")
  ELSE LET r == TransportLoop(listed.files, {}, FALSE) IN
       [tr |-> IF r.certs
               THEN [nil |-> FALSE, InsecureSkipVerify |-> FALSE,
                     RootCAs |-> r.pool, pool |-> TRUE]
               ELSE [nil |-> FALSE, InsecureSkipVerify |-> TRUE,
                     RootCAs |-> {}, pool |-> FALSE],
        err |-> ""]

----------------------------------------------------------------------------
(* Renew *)

\* the urls of the model: one http.NewRequest accepts and one it rejects
GoodURL == "https://sso"
BadURL == "%zz"

\* http.NewRequest("GET", uri, nil) returns an error
NewRequestFails(u) == u = <<BadURL, "/token/renew">>

\* var rec TokenRecord
ZeroRecord ==
  [AccessToken |-> Empty, AccessTokenExpire |-> 0, RefreshToken |-> Empty,
   RefreshTokenExpire |-> 0, IdToken |-> Empty]

\* a body json.Unmarshal rejects
Malformed == [malformed |-> TRUE]

\* json.Unmarshal(data, &rec) into a zero TokenRecord: a key of the object
\* sets the field its tag names, every other field keeps its zero value
Field(body, key, zero) == IF key \in DOMAIN body THEN body[key] ELSE zero

Unmarshal(body) ==
  IF body = Malformed THEN [err |-> TRUE, rec |-> ZeroRecord]
  ELSE [err |-> FALSE,
        rec |-> [AccessToken |-> Field(body, "access_token", Empty),
                 AccessTokenExpire |-> Field(body, "expires_in", 0),
                 RefreshToken |-> Field(body, "refresh_token", Empty),
                 RefreshTokenExpire |-> Field(body, "refresh_expires_in", 0),
                 IdToken |-> Field(body, "id_token", Empty)]]

\* client := &http.Client{}; if Transport gave no error,
\* client = &http.Client{Transport: tr}
DefaultClient == [Transport |-> NilTransport]

RenewClientInsecure(t) ==
  IF t.err = "" THEN [Transport |-> t.tr]
  ELSE [Transport |-> [nil |-> FALSE, InsecureSkipVerify |-> TRUE,
                       RootCAs |-> {}, pool |-> FALSE]]
RenewClient(t) == IF t.err = "" THEN [Transport |-> t.tr] ELSE DefaultClient

\* how a client checks the peer's certificate: a nil Transport is
\* http.DefaultTransport, and a tls.Config with nil RootCAs uses the system's
Verification(c) ==
  IF c.Transport.nil THEN "system"
  ELSE IF c.Transport.InsecureSkipVerify THEN "none"
  ELSE IF c.Transport.pool THEN "pool" ELSE "system"

\* the rest of Renew once client.Do has been called: the error of Do, of
\* ReadAll and of Unmarshal is fatal, anything else gives the record
DecodeLenient(r) ==
  IF r.kind = "neterr" THEN [fatal |-> "network", rec |-> ZeroRecord]
  ELSE IF r.kind = "readerr" THEN [fatal |-> "body", rec |-> ZeroRecord]
  ELSE [fatal |-> "", rec |-> Unmarshal(r.body).rec]
Decode(r) ==
  IF r.kind = "neterr" THEN [fatal |-> "network", rec |-> ZeroRecord]
  ELSE IF r.kind = "readerr" THEN [fatal |-> "body", rec |-> ZeroRecord]
  ELSE IF Unmarshal(r.body).err THEN [fatal |-> "json", rec |-> ZeroRecord]
  ELSE [fatal |-> "", rec |-> Unmarshal(r.body).rec]

NoTransport == [tr |-> NilTransport, err |-> "not called"]

\* Renew(uri, token, rootCAs, verbose) when the endpoint answers r:
\* fatal names the log.Fatal that fired, sent tells whether client.Do ran
Renew(files, dir, u, tok, cas, r) ==
  LET t == ReadToken(files, tok)
      tres == Transport(dir, cas)
      c == RenewClient(tres)
      d == Decode(r)
  IN  IF t.fatal
      THEN [fatal |-> "token", sent |-> FALSE, auth |-> Empty,
            client |-> DefaultClient, trres |-> NoTransport,
            rec |-> ZeroRecord]
      ELSE IF NewRequestFails(u)
      THEN [fatal |-> "request", sent |-> FALSE, auth |-> Empty,
            client |-> DefaultClient, trres |-> NoTransport,
            rec |-> ZeroRecord]
      ELSE [fatal |-> d.fatal, sent |-> TRUE, auth |-> Bearer(t.tok),
            client |-> c, trres |-> tres, rec |-> d.rec]

----------------------------------------------------------------------------
(* LoadCAs *)

\* what happens to one link that is fetched: the body is written and is a
\* PEM file or is not one; http.Get or ReadAll fails; WriteFile fails and
\* leaves no file or a truncated one
Fetches == {"pem", "garbage", "neterr", "writeerr", "writepartial"}

\* os.Stat(fname) returns an error
AlwaysDownload(dir, l) == TRUE
NeedDownload(dir, l) == ~(dir.exists /\ dir.entries[l] # "absent")

\* the loop over links of LoadCAs; fetch[l] is what happens if l is fetched
RECURSIVE LoadLoop(_, _, _, _)
LoadLoop(dir, l, fetch, got) ==
  IF l > NLinks THEN [dir |-> dir, err |-> FALSE, got |-> got]
  ELSE IF ~NeedDownload(dir, l) THEN LoadLoop(dir, l + 1, fetch, got)
  ELSE IF fetch[l] = "neterr"
  THEN [dir |-> dir, err |-> TRUE, got |-> got \cup {l}]
  ELSE IF ~dir.exists \/ fetch[l] = "writeerr"
  THEN [dir |-> dir, err |-> TRUE, got |-> got \cup {l}]
  ELSE IF fetch[l] = "writepartial"
  THEN [dir |-> [dir EXCEPT !.entries[l] = "garbage"], err |-> TRUE,
        got |-> got \cup {l}]
  ELSE LoadLoop([dir EXCEPT !.entries[l] = fetch[l]], l + 1, fetch,
                got \cup {l})

\* LoadCAs(verbose): os.Mkdir when dname is missing (mk: whether it works,
\* its error is dropped), then the loop.  dname is CertDir whatever HOME
\* holds: the scan of the environment only chooses the directory's name.
LoadCAs(dir, mk, fetch) ==
  LoadLoop(IF dir.exists THEN dir ELSE [dir EXCEPT !.exists = mk], 1, fetch,
           {})

----------------------------------------------------------------------------
(* main *)

T0 == <<"T", "0">>
A1 == <<"A", "1">>
A2 == <<"A", "2">>
R1 == <<"R", "1">>
I1 == <<"I", "1">>

\* the flag values of the model
TokenFlags == {T0, P1}
OutFlags == {Empty, P2}
UrlFlags == {GoodURL, BadURL}
RootCAsFlags == {"", CertDir, NoDir}
IntervalFlags == {0, 1}

\* the answers of the endpoint: no answer, a body that cannot be read, a
\* body that is no JSON, a token record, and an error object sent with 401
TokenBody(a, r) ==
  [access_token |-> a, expires_in |-> 120, refresh_token |-> r,
   refresh_expires_in |-> 3600, id_token |-> I1]
ErrorBody == [error |-> "invalid_token"]
NoResponse == [kind |-> "none", status |-> 0, body |-> Malformed]
Responses ==
  {[kind |-> "neterr", status |-> 0, body |-> Malformed],
   [kind |-> "readerr", status |-> 200, body |-> Malformed],
   [kind |-> "resp", status |-> 200, body |-> Malformed],
   [kind |-> "resp", status |-> 401, body |-> ErrorBody]}
  \cup {[kind |-> "resp", status |-> 200, body |-> TokenBody(a, r)] :
          a \in {A1, A2}, r \in {R1, P1}}

\* rurl := fmt.Sprintf("%s/token/renew", uri)
Rurl(u) == <<u, "/token/renew">>

\* the directory states and file states a run starts from
EmptyDir == [exists |-> TRUE, entries |-> [l \in Links |-> "absent"]]
MissingDir == [exists |-> FALSE, entries |-> [l \in Links |-> "absent"]]
AllDirs ==
  {MissingDir} \cup {[exists |-> TRUE, entries |-> e] : e \in [Links -> Kinds]}
SomeDirs ==
  {MissingDir, EmptyDir,
   [exists |-> TRUE, entries |-> [l \in Links |-> "pem"]],
   [exists |-> TRUE,
    entries |-> [l \in Links |-> IF l = 1 THEN "garbage" ELSE
                                 IF l = 2 THEN "noread" ELSE "absent"]],
   [exists |-> TRUE,
    entries |-> [l \in Links |-> IF l = 2 THEN "pem" ELSE
                                 IF l = 3 THEN "garbage" ELSE "absent"]]}
TokenFiles ==
  {NoFile, NoRead, File(<<"a", NL, "b", NL>>), File(<<NL, "a", NL, NL>>)}
OutFiles == {NoFile, File(<<"o", "l", "d">>)}

TypeOK ==
  /\ pc \in {"start", "cas", "renew", "write", "loop", "sleep", "loopwrite",
             "exited"}
  /\ status \in {-1, 0, 1}
  /\ nreq \in 0..MaxRequests
  /\ cadir.exists \/ \A l \in Links : cadir.entries[l] = "absent"

Init ==
  /\ pc = "start"
  /\ status = -1
  /\ cause = ""
  /\ version = FALSE
  /\ token = Empty
  /\ out = Empty
  /\ uri = ""
  /\ rootCAs = ""
  /\ interval = 0
  /\ fs \in {[p \in Paths |-> IF p = P1 THEN f ELSE o] :
               f \in TokenFiles, o \in OutFiles}
  /\ cadir \in SomeDirs
  /\ rec = ZeroRecord
  /\ nreq = 0
  /\ auth = Empty
  /\ client = DefaultClient
  /\ trres = NoTransport
  /\ downloads = {}
  /\ resp = NoResponse
  /\ lastrun = "none"

\* log.Fatal: os.Exit(1)
Fatal(why) == pc' = "exited" /\ status' = 1 /\ cause' = why

\* flag.Parse(), and os.Exit(0) after the version is printed
MainParse ==
  /\ pc = "start"
  /\ version' \in BOOLEAN
  /\ token' \in TokenFlags
  /\ out' \in OutFlags
  /\ uri' \in UrlFlags
  /\ rootCAs' \in RootCAsFlags
  /\ interval' \in IntervalFlags
  /\ IF version' THEN pc' = "exited" /\ status' = 0
                 ELSE pc' = "cas" /\ status' = status
  /\ UNCHANGED <<cause, fs, cadir, rec, nreq, auth, client, trres, downloads,
                 resp, lastrun>>

\* the choices of the environment that LoadCAs can meet: os.Mkdir is called
\* only for a missing directory, and only a file that is missing can be
\* fetched (for the others fetch is fixed, and not looked at)
MkdirResults(dir) == IF dir.exists THEN {TRUE} ELSE BOOLEAN
FileExists(dir, l) == dir.exists /\ dir.entries[l] # "absent"

\* if rootCAs == "" { dir, err := LoadCAs(verbose) ... rootCAs = dir }
MainLoadCAs ==
  /\ pc = "cas"
  /\ IF rootCAs = ""
     THEN \E mk \in MkdirResults(cadir), fetch \in [Links -> Fetches] :
            LET r == LoadCAs(cadir, mk, fetch) IN
            /\ \A l \in Links : FileExists(cadir, l) => fetch[l] = "pem"
            /\ cadir' = r.dir
            /\ downloads' = r.got
            /\ IF r.err THEN Fatal("cas") /\ rootCAs' = rootCAs
                        ELSE /\ pc' = "renew"
                             /\ rootCAs' = CertDir
                             /\ UNCHANGED <<status, cause>>
     ELSE /\ pc' = "renew"
          /\ UNCHANGED <<status, cause, rootCAs, cadir, downloads>>
  /\ UNCHANGED <<version, token, out, interval, fs, rec, nreq, auth, client,
                 trres, uri, resp, lastrun>>

\* rec = Renew(rurl, tok, rootCAs, verbose) with the endpoint answering r;
\* rec is assigned only when Renew returns
CallRenew(tok, r, next) ==
  LET res == Renew(fs, cadir, Rurl(uri), tok, rootCAs, r) IN
  /\ IF res.sent
     THEN /\ nreq' = nreq + 1
          /\ auth' = res.auth
          /\ client' = res.client
          /\ trres' = res.trres
          /\ resp' = r
     ELSE UNCHANGED <<nreq, auth, client, trres, resp>>
  /\ IF res.fatal # ""
     THEN Fatal(res.fatal) /\ rec' = rec
     ELSE pc' = next /\ rec' = res.rec /\ UNCHANGED <<status, cause>>
  /\ UNCHANGED <<version, token, out, interval, rootCAs, fs, cadir,
                 downloads, uri, lastrun>>

\* rec := Renew(rurl, token, rootCAs, verbose)
MainRenew ==
  /\ pc = "renew"
  /\ \E r \in Responses : CallRenew(token, r, "write")

\* if out != "" { ioutil.WriteFile(out, []byte(rec.AccessToken), 0777) },
\* which works, or fails and leaves the file as it was or truncated
WriteOut(next) ==
  /\ IF out # Empty
     THEN \/ /\ fs' = WriteFile(fs, out, rec.AccessToken)
             /\ pc' = next
             /\ UNCHANGED <<status, cause>>
          \/ /\ fs' \in {fs, WriteFile(fs, out, Empty)}
             /\ Fatal("write")
     ELSE /\ pc' = next
          /\ UNCHANGED <<fs, status, cause>>
  /\ UNCHANGED <<version, token, out, interval, rootCAs, cadir, rec, nreq,
                 auth, client, trres, downloads, uri, resp, lastrun>>

MainWrite == pc = "write" /\ WriteOut("loop")

\* if interval > 0
DaemonOnZero(i) == i >= 0
Daemon(i) == i > 0

\* the test of the daemon loop; without it main returns
MainLoop ==
  /\ pc = "loop"
  /\ IF Daemon(interval)
     THEN pc' = "sleep" /\ status' = status
     ELSE pc' = "exited" /\ status' = 0
  /\ UNCHANGED <<cause, version, token, out, interval, rootCAs, fs, cadir,
                 rec, nreq, auth, client, trres, downloads, uri, resp,
                 lastrun>>

\* time.Sleep(d); rtoken := rec.RefreshToken; rec = Renew(rurl, rtoken, ...)
LoopRenew ==
  /\ pc = "sleep"
  /\ nreq < MaxRequests
  /\ \E r \in Responses : CallRenew(rec.RefreshToken, r, "loopwrite")

LoopWrite == pc = "loopwrite" /\ WriteOut("sleep")

Next ==
  \/ MainParse
  \/ MainLoadCAs
  \/ MainRenew
  \/ MainWrite
  \/ MainLoop
  \/ LoopRenew
  \/ LoopWrite

Spec == Init /\ [][Next]_vars

----------------------------------------------------------------------------
(* Renew called on its own inputs *)

\* the state in which main calls Renew, with the flags given
AtRenew(tok, cas, files, dir) ==
  /\ pc = "renew"
  /\ status = -1
  /\ cause = ""
  /\ version = FALSE
  /\ token = tok
  /\ out = Empty
  /\ uri = GoodURL
  /\ rootCAs = cas
  /\ interval = 0
  /\ fs = files
  /\ cadir = dir
  /\ rec = ZeroRecord
  /\ nreq = 0
  /\ auth = Empty
  /\ client = DefaultClient
  /\ trres = NoTransport
  /\ downloads = {}
  /\ resp = NoResponse
  /\ lastrun = "none"

\* Renew on every token string and token file content up to MaxLen
InitReadToken ==
  \E tok \in StringsUpTo(MaxLen) \cup {P1},
     f \in {NoFile, NoRead} \cup {File(d) : d \in StringsUpTo(MaxLen)} :
    AtRenew(tok, NoDir, [p \in Paths |-> IF p = P1 THEN f ELSE NoFile],
            MissingDir)

SpecReadToken == InitReadToken /\ [][MainRenew]_vars

\* Renew (the exported function, which a caller may hand any rootCAs) on
\* every state of the certificate directory
InitTrust ==
  \E cas \in RootCAsFlags, dir \in AllDirs :
    AtRenew(T0, cas, [p \in Paths |-> NoFile], dir)

SpecTrust == InitTrust /\ [][MainRenew]_vars

----------------------------------------------------------------------------
(* The command run again on the same machine *)

\* the process has ended, or is killed, and the command is started again
\* with the same flags (-rootCAs not given): the files stay, the process
\* starts afresh at the bootstrap
Rerun ==
  /\ pc \in {"renew", "write", "exited"}
  /\ pc' = "cas"
  /\ status' = -1
  /\ cause' = ""
  /\ rootCAs' = ""
  /\ lastrun' = IF cause = "cas" THEN "failed" ELSE "ok"
  /\ rec' = ZeroRecord
  /\ nreq' = 0
  /\ auth' = Empty
  /\ client' = DefaultClient
  /\ trres' = NoTransport
  /\ downloads' = {}
  /\ resp' = NoResponse
  /\ UNCHANGED <<version, token, out, interval, fs, cadir, uri>>

InitBoot ==
  /\ pc = "cas"
  /\ status = -1
  /\ cause = ""
  /\ version = FALSE
  /\ token = T0
  /\ out = Empty
  /\ uri = GoodURL
  /\ rootCAs = ""
  /\ interval = 0
  /\ fs = [p \in Paths |-> NoFile]
  /\ cadir \in AllDirs
  /\ rec = ZeroRecord
  /\ nreq = 0
  /\ auth = Empty
  /\ client = DefaultClient
  /\ trres = NoTransport
  /\ downloads = {}
  /\ resp = NoResponse
  /\ lastrun = "none"

NextBoot ==
  \/ MainLoadCAs
  \/ MainRenew
  \/ Rerun

SpecBoot == InitBoot /\ [][NextBoot]_vars

----------------------------------------------------------------------------
(* Claims *)

\* the directory handed to Transport can be listed
Listable == rootCAs = CertDir /\ cadir.exists

\* the files of the directory that parse as PEM
Parsed == {l \in Links : cadir.entries[l] = "pem"}

\* C1: for a directory that can be listed, the configuration Transport
\* returns skips verification if and only if no file of the directory was
\* parsed as PEM.
C1_InsecureIffNoneParsed ==
  (nreq = 1 /\ Listable) =>
    /\ trres.err = ""
    /\ trres.tr.InsecureSkipVerify <=> (Parsed = {})

C3_DefaultClientOnTransportError ==
  (pc # "renew" /\ ~Listable) =>
    /\ nreq = 1
    /\ client = DefaultClient
    /\ client.Transport.nil
    /\ ~client.Transport.InsecureSkipVerify
    /\ Verification(client) = "system"
    /\ cause \in {"", "network", "body", "json"}

C3_Witness ==
  /\ pc = "write"
  /\ rootCAs = ""
  /\ trres.err = "root CAs area is not provided"
  /\ rec.AccessToken = A1
  /\ client.Transport.nil

\* C4: the first request carries the token the caller supplied (the content
\* of the file when it names one), and every later request carries
\* "Bearer " followed by the refresh token of the previous response exactly
\* as the endpoint returned it, whatever the files on disk.
C4_NextRequestCarriesRefreshToken ==
  [][nreq' = nreq + 1 =>
       auth' = BearerPrefix \o (IF nreq = 0 THEN ReadToken(fs, token).tok
                                ELSE rec.RefreshToken)]_vars

\* C5: with an output path, once a renewal has succeeded and been stored
\* and until the next request is sent, the output file holds exactly the
\* access token of main's record; without an output path no file is ever
\* written.
C5_OutputFileIsAccessToken ==
  /\ [](((out # Empty /\ pc \in {"loop", "sleep"})
          \/ (out # Empty /\ pc = "exited" /\ status = 0 /\ ~version))
        => fs[out] = [kind |-> "file", data |-> rec.AccessToken])
  /\ [][(out = Empty /\ pc # "start") => fs' = fs]_vars

C5_Witness ==
  /\ out = P2
  /\ pc = "sleep"
  /\ nreq = 3
  /\ rec.AccessToken = A2
  /\ fs[P2] = File(A2)

\* C6: without an interval the process sends exactly one renewal request
\* and returns from main with status 0; with a positive interval it never
\* returns from main: it goes on renewing and ends only by a fatal error.
C6_OnceOrForever ==
  /\ (interval = 0 /\ ~version) => nreq <= 1
  /\ (interval = 0 /\ pc = "exited" /\ status = 0 /\ ~version) => nreq = 1
  /\ (interval = 0 /\ pc = "loop") => ENABLED MainLoop
  /\ (interval > 0 /\ pc = "exited" /\ ~version) => status = 1
  /\ (interval > 0 /\ pc = "sleep" /\ nreq < MaxRequests) => ENABLED LoopRenew
  /\ (interval > 0 /\ pc = "loop") => nreq = 1

C6_Witness ==
  /\ interval = 0
  /\ pc = "exited"
  /\ status = 0
  /\ ~version
  /\ nreq = 1
  /\ rec.AccessToken = A1

\* an answer that Renew treats as fatal
FatalAnswer(r) ==
  \/ r.kind \in {"neterr", "readerr"}
  \/ r.kind = "resp" /\ r.body = [malformed |-> TRUE]

\* C7: a fatal condition ends the process where it is detected: the request
\* that met it is the last one, main's record is not replaced, and the
\* output file is left as it was unless the failure is the write itself.
C7_FatalEndsTheRun ==
  /\ [][status # -1 => (nreq' = nreq /\ rec' = rec /\ fs' = fs
                        /\ cadir' = cadir /\ status' = status)]_vars
  /\ [][(status = -1 /\ status' = 1) =>
          (rec' = rec /\ pc' = "exited"
           /\ (cause' # "write" => fs' = fs))]_vars
  /\ [][(nreq' = nreq + 1 /\ FatalAnswer(resp')) => status' = 1]_vars
  /\ [][(pc \in {"renew", "sleep"} /\ pc' # pc /\ nreq' = nreq) =>
          (status' = 1 /\ cause' \in {"token", "request"})]_vars
  /\ [](cause = "cas" => (status = 1 /\ nreq = 0))
  /\ [](cause = "token" =>
          \E p \in Paths : fs[p].kind = "noread"
                           /\ p = (IF nreq = 0 THEN token
                                   ELSE rec.RefreshToken))
  /\ [](cause = "request" => (uri = BadURL /\ nreq = 0))

C7_Witness ==
  /\ status = 1
  /\ cause = "json"
  /\ nreq = 2
  /\ out = P2
  /\ rec.AccessToken = A1
  /\ fs[P2] = File(A1)

\* the content of a file with every newline character removed
NoNewlines(d) == SelectSeq(d, LAMBDA c : c # "\n")

\* C8: ReadToken returns r unchanged when r names no existing file, the
\* content of the file without its newline characters when r names a file
\* that can be read, and ends the process, so that no request is sent, when
\* r names a file that cannot be read.
C8_ReadToken ==
  /\ (pc # "renew" /\ (token \notin Paths \/ fs[token].kind = "none")) =>
       (nreq = 1 /\ auth = BearerPrefix \o token)
  /\ (pc # "renew" /\ token \in Paths /\ fs[token].kind = "file") =>
       (nreq = 1 /\ auth = BearerPrefix \o NoNewlines(fs[token].data))
  /\ (pc # "renew" /\ token \in Paths /\ fs[token].kind = "noread") =>
       (nreq = 0 /\ status = 1 /\ pc = "exited" /\ auth = Empty)

C8_Witness ==
  /\ pc = "write"
  /\ token = P1
  /\ fs[P1] = File(<<"\n", "a", "\n">>)
  /\ auth = BearerPrefix \o <<"a">>

\* the links whose file is missing
Missing(dir) == {l \in Links : ~dir.exists \/ dir.entries[l] = "absent"}

\* C9: LoadCAs fetches and writes a link's file only when the file is
\* missing: a run after a run that fetched everything fetches nothing and
\* changes no file, a run after a failed run fetches only missing files; and
\* when LoadCAs fails main ends before any renewal request.
C9_BootstrapIdempotent ==
  /\ [][pc = "cas" =>
          /\ downloads' \subseteq Missing(cadir)
          /\ \A l \in Links \ Missing(cadir) :
               cadir'.entries[l] = cadir.entries[l]
          /\ (pc' = "renew" => Missing(cadir') = {})
          /\ (pc' = "renew" => downloads' = Missing(cadir))]_vars
  /\ []((lastrun = "ok" /\ pc # "cas") => (downloads = {} /\ cause # "cas"))
  /\ [][(lastrun = "ok" /\ pc = "cas") => cadir' = cadir]_vars
  /\ [](cause = "cas" => (pc = "exited" /\ status = 1 /\ nreq = 0))
  /\ []((pc = "exited" /\ downloads # {} /\ Missing(cadir) # {}) =>
          cause = "cas")

C9_Witness ==
  /\ lastrun = "failed"
  /\ pc = "renew"
  /\ downloads = {3, 4}
  /\ cadir.entries[1] = "garbage"
  /\ cadir.entries[3] = "pem"

\* C10: an answer with a status other than success gives no new record: the
\* record, and so the output file and the token of the next request, stay
\* what they were.
C10_ErrorStatusGivesNoRecord ==
  [][(nreq' = nreq + 1 /\ resp'.kind = "resp" /\ resp'.status # 200) =>
       (rec' = rec /\ pc' \notin {"write", "loopwrite"})]_vars

====
